---------------------------- MODULE Spec2Model ----------------------------
(***************************************************************************)
(* A model of the pNMR free-induction-decay simulation                     *)
(* (src/FID_simulation.py) and of the frequency extraction built on it     *)
(* (src/FreeInductionDecay/analysis).                                      *)
(*                                                                         *)
(* Numbers.  The program computes in floating point with numericalunits,   *)
(* whose unit scale is arbitrary.  The model fixes a unit system in which  *)
(* the quantities it needs are integers: lengths in cell-grid steps,       *)
(* angles in quarter turns (2*pi = 4), times in sampling steps.  A finite  *)
(* real is an integer; a result that is not an integer (a square root, an  *)
(* exponential, a quotient) is rounded.  The two non-finite values of      *)
(* IEEE arithmetic, which numpy produces instead of raising, are kept      *)
(* apart from the finite ones: a float is a record [k, v] with             *)
(* k = "fin" (v the value), k = "inf" (v the sign) or k = "nan".           *)
(*                                                                         *)
(* Exceptions.  A call ends by returning a value or by raising; the        *)
(* outcome of a call is a record whose field err is "none" or the name of  *)
(* the Python exception class that the code raises at that place.          *)
(***************************************************************************)
EXTENDS Integers, Sequences, FiniteSets, TLC

VARIABLES
    probes,     \* the Probe objects that exist, by slot
    coil,       \* the Coil object (nmr_coil)
    np_random,  \* numpy's process-wide random state (np.random.*)
    demod,      \* the HilbertTransform object made last
    fid,        \* the PhaseFitFID object
    last_fit,   \* the last PhaseFitFID.fit call: arguments, stages, outcome
    result      \* what the last call returned or raised

vars == <<probes, coil, np_random, demod, fid, last_fit, result>>
simVars == <<probes, coil>>
fitVars == <<demod, fid, last_fit>>

(***************************************************************************)
(* Bounds of the model.                                                    *)
(***************************************************************************)
MaxCells == 2       \* N_cells ranges over 0..MaxCells
MaxSeed == 1        \* seeds range over 0..MaxSeed
MaxDraws == 2       \* draws taken from the process-wide random state
MaxTime == 2        \* sample times t range over -1..MaxTime
MaxLen == 7         \* samples of a waveform handed to the analysis
MaxRanLen == 8      \* samples of the arrays handed to PhaseFitRan.get_fit_range

(***************************************************************************)
(* Floating point values.                                                  *)
(***************************************************************************)
F(n) == [k |-> "fin", v |-> n]
PInf == [k |-> "inf", v |-> 1]
NInf == [k |-> "inf", v |-> -1]
NaN == [k |-> "nan", v |-> 0]

Sgn(n) == IF n > 0 THEN 1 ELSE IF n < 0 THEN -1 ELSE 0

IsFinite(a) == a.k = "fin"

FNeg(a) == [k |-> a.k, v |-> -a.v]

FMul(a, b) ==
    IF a.k = "nan" \/ b.k = "nan" THEN NaN
    ELSE IF a.k = "fin" /\ b.k = "fin" THEN F(a.v * b.v)
    ELSE IF Sgn(a.v) * Sgn(b.v) = 0 THEN NaN      \* inf * 0
    ELSE [k |-> "inf", v |-> Sgn(a.v) * Sgn(b.v)]

FAdd(a, b) ==
    IF a.k = "nan" \/ b.k = "nan" THEN NaN
    ELSE IF a.k = "fin" /\ b.k = "fin" THEN F(a.v + b.v)
    ELSE IF a.k = "inf" /\ b.k = "inf" THEN (IF a.v = b.v THEN a ELSE NaN)
    ELSE IF a.k = "inf" THEN a ELSE b

\* numpy's true division: a zero divisor gives inf or nan (and a warning),
\* never an exception.
FDiv(a, b) ==
    IF a.k = "nan" \/ b.k = "nan" THEN NaN
    ELSE IF b.k = "inf" THEN (IF a.k = "inf" THEN NaN ELSE F(0))
    ELSE IF b.v = 0 THEN
        (IF a.k = "fin" /\ a.v = 0 THEN NaN
         ELSE [k |-> "inf", v |-> Sgn(a.v)])
    ELSE IF a.k = "inf" THEN [k |-> "inf", v |-> Sgn(a.v) * Sgn(b.v)]
    ELSE F(a.v \div b.v)

\* e^x rounded to the nearest integer, for the exponents the model reaches.
ExpInt(x) ==
    IF x < 0 THEN 0
    ELSE IF x = 0 THEN 1
    ELSE IF x = 1 THEN 3
    ELSE IF x = 2 THEN 7
    ELSE 20

FExp(a) ==
    IF a.k = "nan" THEN NaN
    ELSE IF a.k = "inf" THEN (IF a.v > 0 THEN PInf ELSE F(0))
    ELSE F(ExpInt(a.v))

\* sin and cos of an angle given in quarter turns.
SinQ(n) == <<0, 1, 0, -1>>[(n % 4) + 1]
CosQ(n) == <<1, 0, -1, 0>>[(n % 4) + 1]

FSin(a) == IF a.k = "fin" THEN F(SinQ(a.v)) ELSE NaN
FCos(a) == IF a.k = "fin" THEN F(CosQ(a.v)) ELSE NaN

\* floor of the square root of n >= 0
ISqrt(n) == CHOOSE r \in 0..n : r * r <= n /\ (r + 1) * (r + 1) > n

(***************************************************************************)
(* Outcomes of calls.                                                      *)
(***************************************************************************)
Raise(e) == [err |-> e]
Return(x) == [err |-> "none", val |-> x]
Raised(o) == o.err # "none"

\* a name that is bound to no object yet
NoObject == [alive |-> FALSE]

\* obj with the attributes of rec assigned
SetAttrs(obj, rec) == rec @@ obj

HasAttr(obj, name) == name \in DOMAIN obj

(***************************************************************************)
(* Constants of the program, in the model's units.                         *)
(***************************************************************************)
\* gyromagnetic ratio of the proton: two quarter turns per unit field and time
gamma_p == 2

(***************************************************************************)
(* Vector3D, PermanentMagnet.                                              *)
(***************************************************************************)
Vector3D(a, b, c) == [x |-> a, y |-> b, z |-> c]

mag(vec) == ISqrt(vec.x * vec.x + vec.y * vec.y + vec.z * vec.z)

\* PermanentMagnet.B_field: the same vector at every position
PermanentMagnet_B_field(B0, x, y, z) == Vector3D(0, 0, B0)

(***************************************************************************)
(* np.random.RandomState.  A generator is [seed, pos]: the stream is a     *)
(* function of the seed, and pos counts the numbers drawn so far.  A draw  *)
(* has four equally likely levels.                                         *)
(***************************************************************************)
RandomState(seed) == [seed |-> seed, pos |-> 0]

\* the i-th raw number (0..3) of the stream of a seed
Stream(seed, i) == ((i * (i + 3)) \div 2 + (2 * seed + 1) * i + seed) % 4

\* rng.uniform(lo, hi, size = n): the n values drawn, as a sequence
uniform(rng, lo, hi, n) ==
    [j \in 1..n |-> lo + ((hi - lo) * Stream(rng.seed, rng.pos + j - 1)) \div 4]

advance(rng, n) == [rng EXCEPT !.pos = @ + n]


(***************************************************************************)
(* Material: only T2 is read by the operations modelled here.  Material    *)
(* stores what it is given and validates nothing.                          *)
(***************************************************************************)
Material(T2) == [T2 |-> T2]

(***************************************************************************)
(* Probe.  A Cell is a record whose fields are the attributes the Python   *)
(* object has: x, y, z and B0 after initialize_cells; B1, mu_x, mu_y,      *)
(* mu_z and mu_T only once apply_rf_field has set them.                    *)
(***************************************************************************)
NoProbe == [alive |-> FALSE]

\* Probe.Cell.__init__
Cell(r, phi, z) == [x |-> r * SinQ(phi), y |-> r * CosQ(phi), z |-> z]

\* Probe.initialize_cells, with a mutant that draws from the process-wide state
initialize_cells_global(self, N_cells) ==
    LET rs == [j \in 1..N_cells |->
                  ISqrt(uniform(np_random, 0, self.radius * self.radius, N_cells)[j])]
        phis == uniform(advance(np_random, N_cells), 0, 4, N_cells)
        zs == uniform(advance(np_random, 2 * N_cells),
                      -(self.length \div 2), self.length \div 2, N_cells)
        cells == [j \in 1..N_cells |-> Cell(rs[j], phis[j], zs[j])]
    IN  [self EXCEPT
            !.cells = [j \in 1..N_cells |->
                          [x |-> cells[j].x, y |-> cells[j].y, z |-> cells[j].z,
                           B0 |-> PermanentMagnet_B_field(self.B_field,
                                      cells[j].x, cells[j].y, cells[j].z)]]]

initialize_cells(self, N_cells) ==
    LET rs == [j \in 1..N_cells |->
                  ISqrt(uniform(self.rng, 0, self.radius * self.radius, N_cells)[j])]
        phis == uniform(advance(self.rng, N_cells), 0, 4, N_cells)
        zs == uniform(advance(self.rng, 2 * N_cells),
                      -(self.length \div 2), self.length \div 2, N_cells)
        cells == [j \in 1..N_cells |-> Cell(rs[j], phis[j], zs[j])]
    IN  [self EXCEPT
            !.cells = [j \in 1..N_cells |->
                          [x |-> cells[j].x, y |-> cells[j].y, z |-> cells[j].z,
                           B0 |-> PermanentMagnet_B_field(self.B_field,
                                      cells[j].x, cells[j].y, cells[j].z)]],
            !.rng = advance(@, 3 * N_cells)]

\* Probe.__init__.  magnetization * V_cell is a finite numpy scalar (it comes
\* from Vector3D.mag, a np.sqrt), so dividing it by N_cells = 0 gives inf and
\* a warning, not an exception: an empty ensemble can be constructed.
\* rf_applied tells whether apply_rf_field was ever called on the object and
\* made_at how many draws the process-wide random state had given when the
\* object was made (history, not attributes of the Python object).
Probe(length, diameter, material, B_field, N_cells, seed) ==
    initialize_cells(
        [alive |-> TRUE,
         length |-> length,
         radius |-> diameter \div 2,
         material |-> material,
         B_field |-> B_field,
         seed |-> seed,
         rng |-> RandomState(seed),
         N_cells |-> N_cells,
         dipole_moment_mag |->
             FDiv(F(length * (diameter \div 2) * (diameter \div 2)), F(N_cells)),
         cells |-> <<>>,
         rf_applied |-> FALSE,
         made_at |-> np_random.pos],
        N_cells)

(***************************************************************************)
(* Coil.                                                                   *)
(***************************************************************************)
Coil(turns, length, diameter, current) ==
    [turns |-> turns, length |-> length, radius |-> diameter \div 2,
     current |-> current]

\* Coil.B_field: (mu0/4pi) * current * (line integral along the helix).  The
\* integral is evaluated by scipy's adaptive quadrature; the model takes its
\* value to first order about the centre of a short solenoid: an axial part
\* proportional to the number of turns and a radial part proportional to r*z.
Coil_B_field(self, x, y, z) ==
    Vector3D(self.current * x * z, self.current * y * z,
             self.current * self.turns)

\* Probe.apply_rf_field(rf_field, time), with rf_field the B_field of a coil
apply_rf_field(self, rf_coil, time) ==
    LET withB1 == [j \in 1..Len(self.cells) |->
                      LET c == self.cells[j]
                      IN  [x |-> c.x, y |-> c.y, z |-> c.z, B0 |-> c.B0,
                           B1 |-> Coil_B_field(rf_coil, c.x, c.y, c.z)]]
        tip(c) == ((gamma_p * mag(c.B1)) \div 2) * time
        mu_x(c) == SinQ(tip(c))
        mu_y(c) == SinQ(tip(c))
        mu_z(c) == CosQ(tip(c))
    IN  [self EXCEPT
            !.cells = [j \in 1..Len(self.cells) |->
                          LET c == withB1[j]
                          IN  [x |-> c.x, y |-> c.y, z |-> c.z, B0 |-> c.B0,
                               B1 |-> c.B1,
                               mu_x |-> mu_x(c), mu_y |-> mu_y(c), mu_z |-> mu_z(c),
                               mu_T |-> ISqrt(mu_x(c) * mu_x(c) + mu_y(c) * mu_y(c))]],
            !.rf_applied = TRUE]

(***************************************************************************)
(* Probe.relax_B_dot_mu(t, mix_down).  t is a Python float ("py") or a     *)
(* numpy scalar ("np", as when iterating over np.linspace); T2 is the      *)
(* Python float the Material was given.  -t/T2 between two Python floats   *)
(* raises ZeroDivisionError on T2 = 0; with a numpy t it gives inf or nan. *)
(* The operator returns the outcome and the object as the call leaves it.  *)
(***************************************************************************)
Exponent(t, tkind, T2) ==
    IF tkind = "py" /\ T2 = 0 THEN Raise("ZeroDivisionError")
    ELSE Return(FDiv(F(-t), F(T2)))

\* cell.B1.x * mu_x(cell) + cell.B1.y * mu_y(cell) + cell.B1.z * mu_z(cell)
CellSignal(self, cell, t, tkind, mix_down) ==
    IF ~HasAttr(cell, "B1") THEN Raise("AttributeError")
    ELSE IF ~HasAttr(cell, "mu_T") THEN Raise("AttributeError")
    ELSE LET e == Exponent(t, tkind, self.material.T2)
         IN  IF Raised(e) THEN e
             ELSE LET angle == F((gamma_p * mag(cell.B0) - mix_down) * t)
                      mu_x == FMul(FMul(F(cell.mu_T), FSin(angle)), FExp(e.val))
                      mu_y == FMul(FMul(F(cell.mu_T), FCos(angle)), FExp(e.val))
                      mu_z == F(cell.mu_z)
                  IN  Return(FAdd(FAdd(FMul(F(cell.B1.x), mu_x),
                                       FMul(F(cell.B1.y), mu_y)),
                                  FMul(F(cell.B1.z), mu_z)))

\* np.sum over the list comprehension: the first cell that raises ends the
\* call; the sum of an empty list is 0.0
RECURSIVE SumCells(_, _, _, _, _)
SumCells(self, j, t, tkind, mix_down) ==
    IF j = 0 THEN Return(F(0))
    ELSE LET head == SumCells(self, j - 1, t, tkind, mix_down)
         IN  IF Raised(head) THEN head
             ELSE LET term == CellSignal(self, self.cells[j], t, tkind, mix_down)
                  IN  IF Raised(term) THEN term
                      ELSE Return(FAdd(head.val, term.val))

\* a mutant that stores the decayed transverse moment back into the cells
relax_B_dot_mu_in_place(self, t, tkind, mix_down) ==
    LET out == SumCells(self, Len(self.cells), t, tkind, mix_down)
    IN  [out |-> out,
         self |-> IF Raised(out) THEN self
                  ELSE [self EXCEPT !.cells =
                           [j \in 1..Len(self.cells) |->
                               [self.cells[j] EXCEPT !.mu_T = @ * ExpInt(-t)]]]]

relax_B_dot_mu(self, t, tkind, mix_down) ==
    [out |-> SumCells(self, Len(self.cells), t, tkind, mix_down), self |-> self]

\* Coil.pickup_flux: turns * probe.relax_B_dot_mu(t, mix_down) / current.
\* relax_B_dot_mu returns a numpy scalar, so the division is numpy's.
pickup_flux(self, probe, t, tkind, mix_down) ==
    LET r == relax_B_dot_mu(probe, t, tkind, mix_down)
    IN  [out |-> IF Raised(r.out) THEN r.out
                 ELSE Return(FDiv(FMul(F(self.turns), r.out.val), F(self.current))),
         self |-> self,
         probe |-> r.self]

(***************************************************************************)
(* The simulation: one probe and one coil, as in the driver; any order of  *)
(* apply_rf_field, relax_B_dot_mu and pickup_flux calls.                   *)
(***************************************************************************)
Slots == {1, 2}
T2Vals == {0, 1}
Seeds == 0..MaxSeed
CellCounts == 0..MaxCells
Currents == {0, 1, 2}
Durations == {0, 1}
TimeVals == -1..MaxTime
TKinds == {"py", "np"}
MixDowns == {0, 1}

Init ==
    /\ np_random = RandomState(0)
    /\ \E T2 \in T2Vals, N \in CellCounts, seed \in Seeds :
          probes = [i \in Slots |->
                       IF i = 1 THEN Probe(4, 4, Material(T2), 1, N, seed)
                       ELSE NoProbe]
    /\ \E current \in Currents : coil = Coil(1, 4, 4, current)
    /\ demod = NoObject /\ fid = NoObject /\ last_fit = NoObject
    /\ result = [op |-> "init", slot |-> 1, out |-> Raise("none")]

ApplyRfField(i, time) ==
    /\ probes[i].alive
    /\ probes' = [probes EXCEPT ![i] = apply_rf_field(@, coil, time)]
    /\ result' = [op |-> "apply_rf_field", slot |-> i, out |-> Raise("none")]
    /\ UNCHANGED <<coil, np_random, fitVars>>

RelaxBDotMu(i, t, tkind, mix_down) ==
    /\ probes[i].alive
    /\ LET r == relax_B_dot_mu(probes[i], t, tkind, mix_down)
       IN  /\ probes' = [probes EXCEPT ![i] = r.self]
           /\ result' = [op |-> "relax_B_dot_mu", slot |-> i, out |-> r.out]
    /\ UNCHANGED <<coil, np_random, fitVars>>

PickupFlux(i, t, tkind, mix_down) ==
    /\ probes[i].alive
    /\ LET r == pickup_flux(coil, probes[i], t, tkind, mix_down)
       IN  /\ probes' = [probes EXCEPT ![i] = r.probe]
           /\ coil' = r.self
           /\ result' = [op |-> "pickup_flux", slot |-> i, out |-> r.out]
    /\ UNCHANGED <<np_random, fitVars>>

Next ==
    \/ \E i \in Slots, time \in Durations : ApplyRfField(i, time)
    \/ \E i \in Slots, t \in TimeVals, tkind \in TKinds, mix_down \in MixDowns :
          RelaxBDotMu(i, t, tkind, mix_down)
    \/ \E i \in Slots, t \in TimeVals, tkind \in TKinds, mix_down \in MixDowns :
          PickupFlux(i, t, tkind, mix_down)

Spec == Init /\ [][Next]_vars

(***************************************************************************)
(* Ensemble construction: Probe objects are made in any order and with any *)
(* seeds while other code draws from numpy's process-wide random state.    *)
(***************************************************************************)
InitEnsembles ==
    /\ np_random = RandomState(0)
    /\ probes = [i \in Slots |-> NoProbe]
    /\ coil = Coil(1, 4, 4, 1)
    /\ demod = NoObject /\ fid = NoObject /\ last_fit = NoObject
    /\ result = [op |-> "init", slot |-> 1, out |-> Raise("none")]

\* nmr_probe = Probe(...): a new object takes the place of the one in slot i
NewProbe(i, N, seed) ==
    /\ probes' = [probes EXCEPT ![i] = Probe(4, 4, Material(1), 1, N, seed)]
    /\ result' = [op |-> "Probe", slot |-> i, out |-> Raise("none")]
    /\ UNCHANGED <<coil, np_random, fitVars>>

\* any np.random.* call elsewhere in the process
GlobalDraw ==
    /\ np_random.pos < MaxDraws
    /\ np_random' = advance(np_random, 1)
    /\ result' = [op |-> "np.random", slot |-> 1, out |-> Raise("none")]
    /\ UNCHANGED <<probes, coil, fitVars>>

NextEnsembles ==
    \/ \E i \in Slots, N \in CellCounts, seed \in Seeds : NewProbe(i, N, seed)
    \/ GlobalDraw

SpecEnsembles == InitEnsembles /\ [][NextEnsembles]_vars

(***************************************************************************)
(* Claims about the simulation.                                            *)
(***************************************************************************)
SignalCall == result.op \in {"relax_B_dot_mu", "pickup_flux"}

\* C1 (as claimed): a signal call on a probe whose apply_rf_field was never
\* called raises (the ordering error surfaces as the AttributeError of the
\* missing cell attribute) and returns no value; after apply_rf_field it
\* returns a value.
C1_SignalNeedsExcitation ==
    SignalCall =>
        IF probes[result.slot].rf_applied
        THEN ~Raised(result.out)
        ELSE result.out.err = "AttributeError"

\* a signal call on a probe that has cells and has been excited
ExcitedCall(op) ==
    /\ result.op = op
    /\ probes[result.slot].rf_applied
    /\ probes[result.slot].N_cells >= 1

\* C6 (as claimed): pickup_flux on a coil whose current is 0 returns no value
\* (finite, infinite or NaN); on an excited probe it raises a
\* division-by-zero error.
C6_ZeroCurrentRaises ==
    (ExcitedCall("pickup_flux") /\ coil.current = 0) =>
        result.out.err = "ZeroDivisionError"

\* C7 (as claimed): relax_B_dot_mu on an excited probe whose material has
\* T2 = 0 raises and returns no value, so never an infinite or NaN one.
C7_ZeroT2Raises ==
    (ExcitedCall("relax_B_dot_mu") /\ probes[result.slot].material.T2 = 0) =>
        Raised(result.out)

\* C9: two ensembles made with identical parameters and the same seed have
\* the same cell positions and the same static field cell by cell, whatever
\* was constructed or drawn in between.
SameParameters(p, q) ==
    /\ p.length = q.length
    /\ p.radius = q.radius
    /\ p.material = q.material
    /\ p.B_field = q.B_field
    /\ p.N_cells = q.N_cells
    /\ p.seed = q.seed

C9_SameSeedSameEnsemble ==
    \A i \in Slots, j \in Slots :
        (probes[i].alive /\ probes[j].alive /\ SameParameters(probes[i], probes[j])) =>
            /\ Len(probes[i].cells) = Len(probes[j].cells)
            /\ \A n \in 1..Len(probes[i].cells) :
                  /\ probes[i].cells[n].x = probes[j].cells[n].x
                  /\ probes[i].cells[n].y = probes[j].cells[n].y
                  /\ probes[i].cells[n].z = probes[j].cells[n].z
                  /\ probes[i].cells[n].B0 = probes[j].cells[n].B0

\* two ensembles of at least two cells, same parameters and seed, made at
\* different points of the process-wide random stream
C9_Witness ==
    /\ probes[1].alive /\ probes[2].alive
    /\ SameParameters(probes[1], probes[2])
    /\ probes[1].N_cells >= 2
    /\ probes[1].made_at # probes[2].made_at

\* C10: a pickup_flux call changes neither the coil nor any cell.
PickupFluxStep ==
    \E i \in Slots, t \in TimeVals, tkind \in TKinds, mix_down \in MixDowns :
        PickupFlux(i, t, tkind, mix_down)

C10_PickupFluxReadOnly == [][PickupFluxStep => UNCHANGED <<probes, coil>>]_vars

\* a pickup_flux call on an excited probe with cells has returned a value
C10_Witness ==
    /\ result.op = "pickup_flux"
    /\ ~Raised(result.out)
    /\ probes[result.slot].rf_applied
    /\ probes[result.slot].N_cells >= 1
    /\ \E n \in 1..Len(probes[result.slot].cells) :
          probes[result.slot].cells[n].mu_T # 0


(***************************************************************************)
(* The analysis (src/FreeInductionDecay/analysis).                         *)
(*                                                                         *)
(* A waveform is a pair of numpy arrays, modelled as sequences: times in   *)
(* sampling steps and flux in flux steps of 10 uV, so that flux / uV is    *)
(* flux * 10.  Phases are in eighths of pi (pi = 8, 2*pi = 16); a phase is *)
(* a float, because arctan(0/0) is nan.                                    *)
(***************************************************************************)
RECURSIVE SumSeq(_)
SumSeq(q) == IF q = <<>> THEN 0 ELSE Head(q) + SumSeq(Tail(q))

\* array[mask]: the elements of the array q at the indices in mask, from
\* index i on, in order
RECURSIVE Masked(_, _, _)
Masked(q, mask, i) ==
    IF i > Len(q) THEN <<>>
    ELSE (IF i \in mask THEN <<q[i]>> ELSE <<>>) \o Masked(q, mask, i + 1)

MinOf(S) == CHOOSE m \in S : \A n \in S : m <= n
MaxOf(S) == CHOOSE m \in S : \A n \in S : m >= n

\* np.sign
sign(x) == Sgn(x)

\* np.arctan(im / re) for integers im and re, rounded to the nearest eighth
\* of pi: numpy divides without raising, x/0 is +/-inf (arctan = +/-pi/2)
\* and 0/0 is nan
arctan(im, re) ==
    IF re = 0 THEN (IF im = 0 THEN NaN ELSE F(4 * Sgn(im)))
    ELSE LET a == 1000 * (IF im < 0 THEN -im ELSE im)
             b == IF re < 0 THEN -re ELSE re
             n == IF a < 199 * b THEN 0
                  ELSE IF a < 668 * b THEN 1
                  ELSE IF a < 1497 * b THEN 2
                  ELSE IF a < 5027 * b THEN 3
                  ELSE 4
         IN  F(n * Sgn(im) * Sgn(re))

\* scipy.signal.hilbert(x): the analytic signal of x, as the pair of its
\* real part (x itself) and its imaginary part.  The library computes the
\* imaginary part by FFT; the model takes the cyclic central difference
\* (x[i-1] - x[i+1]) / 2, which is the exact quadrature of the constant, the
\* alternating and the period-4 carriers the model's waveforms are made of.
\* An empty input raises ValueError("N must be positive.").
hilbert(x) ==
    IF Len(x) = 0 THEN Raise("ValueError")
    ELSE LET N == Len(x)
             at(i) == x[((i - 1) % N) + 1]
         IN  Return([real |-> x,
                     imag |-> [i \in 1..N |-> (at(i - 1) - at(i + 1)) \div 2]])

\* HilbertTransform.__init__ with the length test applied to one side only
HilbertTransform_one_sided(times, flux) ==
    IF Len(times) < Len(flux)
    THEN [out |-> Raise("AttributeError"), stages |-> <<"len">>]
    ELSE LET h == hilbert([i \in 1..Len(flux) |-> flux[i] * 10])
         IN  [out |-> IF Raised(h) THEN h
                      ELSE Return([alive |-> TRUE, N |-> Len(flux), time |-> times,
                                   flux |-> [i \in 1..Len(flux) |-> flux[i] * 10],
                                   h |-> h.val]),
              stages |-> <<"len", "scale", "hilbert">>]

\* HilbertTransform(times, flux): the outcome of the constructor (the new
\* object, or the exception) and the steps it ran
HilbertTransform(times, flux) ==
    IF Len(times) # Len(flux)
    THEN [out |-> Raise("AttributeError"), stages |-> <<"len">>]
    ELSE LET h == hilbert([i \in 1..Len(flux) |-> flux[i] * 10])
         IN  [out |-> IF Raised(h) THEN h
                      ELSE Return([alive |-> TRUE, N |-> Len(flux), time |-> times,
                                   flux |-> [i \in 1..Len(flux) |-> flux[i] * 10],
                                   h |-> h.val]),
              stages |-> <<"len", "scale", "hilbert">>]

real(self) == self.h.real
imag(self) == self.h.imag

\* the number of k < i with sign(flux[k+1]) # sign(flux[k]): the cumulative
\* sum of line 23 divided by pi
RECURSIVE oscillations(_, _)
oscillations(self, i) ==
    IF i <= 1 THEN 0
    ELSE oscillations(self, i - 1)
         + (IF sign(self.flux[i]) # sign(self.flux[i - 1]) THEN 1 ELSE 0)

\* HilbertTransform.PhaseFunction: the phase array (the arctan2 of line 21
\* is overwritten by the arctan of line 22)
PhaseFunction(self) ==
    [i \in 1..self.N |->
        FAdd(arctan(imag(self)[i], real(self)[i]), F(8 * oscillations(self, i)))]

\* HilbertTransform.EnvelopeFunction: the envelope array
EnvelopeFunction(self) ==
    [i \in 1..self.N |-> ISqrt(imag(self)[i] * imag(self)[i] + real(self)[i] * real(self)[i])]

(***************************************************************************)
(* Waveforms handed to the analysis: a carrier (constant, alternating or   *)
(* of period 4) gated on a <= t < b, sampled on the grid 0, 1, ..., n - 1. *)
(***************************************************************************)
Grid(n) == [i \in 1..n |-> i - 1]

Carrier(p, t) ==
    IF p = 1 THEN 1
    ELSE IF p = 2 THEN (IF t % 2 = 0 THEN 1 ELSE -1)
    ELSE CosQ(t)

Burst(n, a, b, p) == [i \in 1..n |-> IF a <= i - 1 /\ i - 1 < b THEN Carrier(p, i - 1) ELSE 0]

Periods == {1, 2, 4}
Lengths == 0..MaxLen

(***************************************************************************)
(* The demodulator on its own: HilbertTransform objects are made from      *)
(* arrays of any two lengths and asked for phase and envelope.             *)
(***************************************************************************)
InitDemod ==
    /\ np_random = RandomState(0)
    /\ probes = [i \in Slots |-> NoProbe]
    /\ coil = Coil(1, 4, 4, 1)
    /\ demod = NoObject /\ fid = NoObject /\ last_fit = NoObject
    /\ result = [op |-> "init", out |-> Raise("none")]

NewHilbertTransform(nt, nf, a, p) ==
    /\ \E r \in {HilbertTransform(Grid(nt), Burst(nf, a, nf, p))} :
           /\ demod' = IF Raised(r.out) THEN demod ELSE r.out.val
           /\ result' = [op |-> "HilbertTransform", nt |-> nt, nf |-> nf,
                         out |-> IF Raised(r.out) THEN r.out ELSE Return(nf),
                         stages |-> r.stages]
    /\ UNCHANGED <<probes, coil, np_random, fid, last_fit>>

CallPhaseFunction ==
    /\ demod.alive
    /\ result' = [op |-> "PhaseFunction", out |-> Return(PhaseFunction(demod))]
    /\ UNCHANGED <<probes, coil, np_random, fitVars>>

CallEnvelopeFunction ==
    /\ demod.alive
    /\ result' = [op |-> "EnvelopeFunction", out |-> Return(EnvelopeFunction(demod))]
    /\ UNCHANGED <<probes, coil, np_random, fitVars>>

NextDemod ==
    \/ \E nt \in Lengths, nf \in Lengths, p \in Periods :
          \E a \in {0, nf} : NewHilbertTransform(nt, nf, a, p)
    \/ CallPhaseFunction
    \/ CallEnvelopeFunction

SpecDemod == InitDemod /\ [][NextDemod]_vars

\* C3: a HilbertTransform constructor call with len(times) # len(flux)
\* raises the dimension error (an AttributeError) and has run nothing but the
\* length test: neither the scaling nor the transform.
C3_DimensionMismatchRaises ==
    (result.op = "HilbertTransform" /\ result.nt # result.nf) =>
        /\ result.out.err = "AttributeError"
        /\ result.stages = <<"len">>

\* both directions of mismatch have been tried after a successful
\* construction, which the failed call left in place
C3_Witness ==
    /\ result.op = "HilbertTransform"
    /\ result.nt > result.nf
    /\ result.nf >= 1
    /\ Raised(result.out)
    /\ demod.alive


(***************************************************************************)
(* PhaseFitFID (src/FreeInductionDecay/analysis/phase_fit.py).             *)
(*                                                                         *)
(* A Python object is a record whose domain is the set of attributes       *)
(* assigned so far; fit assigns attributes one by one, so a call that      *)
(* raises leaves the attributes assigned before the raise.                 *)
(***************************************************************************)
None == [k |-> "None", v |-> 0]
IsNone(a) == a.k = "None"

\* PhaseFitFID.fit_version: the number of parameters of each fit mode
fit_version ==
    [t3_odd |-> [nParams |-> 3], t5_odd |-> [nParams |-> 4],
     t7_odd |-> [nParams |-> 5], t3_all |-> [nParams |-> 4],
     t4_all |-> [nParams |-> 5], t5_all |-> [nParams |-> 6],
     t6_all |-> [nParams |-> 7], t7_all |-> [nParams |-> 8]]

\* load_phase_template(path): the array read from the file, one row per
\* probe id; a file is modelled by the rows it holds
load_phase_template(self, file) == SetAttrs(self, [phase_template |-> file.rows])

\* load_fit_range_template(path): the dict probe id -> (begin, end) built
\* from the entries of the JSON file
load_fit_range_template(self, file) ==
    SetAttrs(self, [fit_range_template |->
        [id \in {e[1] : e \in file.entries} |->
            LET e == CHOOSE e \in file.entries : e[1] = id IN <<e[2], e[3]>>]])

\* PhaseFitFID.__init__
PhaseFitFID(probe, edge_ignore, frac, smoothing, n_smooth, phase_template_file, fit_range_template_file, fit_mode) ==
    LET s0 == [alive |-> TRUE,
               class |-> "PhaseFitFID",
               t0 |-> probe.time_pretrigger,
               pretrigger |-> probe.time_pretrigger,
               readout_length |-> probe.readout_length,
               edge_ignore |-> edge_ignore,
               frac |-> frac,
               smoothing |-> smoothing,
               n_smooth |-> n_smooth,
               nParams |-> fit_version[fit_mode].nParams,
               fit_func |-> fit_mode]
        s1 == IF IsNone(phase_template_file) THEN s0
              ELSE load_phase_template(s0, phase_template_file)
    IN  IF IsNone(fit_range_template_file) THEN s1
        ELSE load_fit_range_template(s1, fit_range_template_file)

\* Evaluation.  A value that is used more than once is bound by a set
\* comprehension over a singleton: CHOOSE r \in {e(x) : x \in {v}} : TRUE is
\* e(v), with v evaluated once.

\* the samples of the search window of get_fit_range (mask_edge)
mask_edge(self) ==
    LET t_min0 == MinOf({self.time[i] : i \in 1..Len(self.time)})
        t_max0 == MaxOf({self.time[i] : i \in 1..Len(self.time)})
        t_min == IF ~IsNone(self.pretrigger)
                 THEN MaxOf({t_min0, self.pretrigger.v}) ELSE t_min0
        t_max == IF ~IsNone(self.readout_length)
                 THEN MinOf({t_max0, self.readout_length.v}) ELSE t_max0
    IN  UNION {{i \in 1..Len(self.time) :
                   /\ self.time[i] > lo + self.edge_ignore
                   /\ self.time[i] < hi - self.edge_ignore} : lo \in {t_min}, hi \in {t_max}}

\* the samples of the window above the threshold: env > max(env[window]) * frac
above_threshold(self) ==
    UNION {{i \in window : self.env[i] * self.frac.den
                              > MaxOf({self.env[j] : j \in window}) * self.frac.num}
              : window \in {mask_edge(self)}}

\* lines 80-82 with the end searched among the samples that are not above
\* the threshold, wherever they are, instead of the samples not selected
range_of_mask_below_only(self, mask) ==
    IF mask = {} THEN Raise("ValueError")
    ELSE LET t_min == MinOf({self.time[i] : i \in mask})
             thres_num == MaxOf({self.env[j] : j \in mask_edge(self)}) * self.frac.num
             rest == {i \in 1..Len(self.time) :
                        /\ self.time[i] > t_min
                        /\ ~(self.env[i] * self.frac.den > thres_num)}
         IN  IF rest = {} THEN Raise("ValueError")
             ELSE Return(<<t_min, MinOf({self.time[i] : i \in rest})>>)

\* lines 80-82: the range that starts at the first selected sample and ends
\* at the first sample after it that is not selected
range_of_mask(self, mask) ==
    IF mask = {} THEN Raise("ValueError")
    ELSE LET t_min == MinOf({self.time[i] : i \in mask})
             rest == {i \in 1..Len(self.time) : self.time[i] > t_min /\ i \notin mask}
         IN  IF rest = {} THEN Raise("ValueError")
             ELSE Return(<<t_min, MinOf({self.time[i] : i \in rest})>>)

\* get_fit_range that falls back to the whole window when nothing is above
\* the threshold
PhaseFitFID_get_fit_range_lenient(self) ==
    IF mask_edge(self) = {} THEN Raise("ValueError")
    ELSE CHOOSE r \in {range_of_mask(self, mask) :
                          mask \in {IF above_threshold(self) = {} THEN mask_edge(self)
                                    ELSE above_threshold(self)}} : TRUE

\* PhaseFitFID.get_fit_range: np.max and np.min raise ValueError on an empty
\* selection
PhaseFitFID_get_fit_range(self) ==
    IF mask_edge(self) = {} THEN Raise("ValueError")
    ELSE CHOOSE r \in {range_of_mask(self, mask) : mask \in {above_threshold(self)}} : TRUE

\* PhaseFitEcho.__init__, for a probe whose readout_length is a number (with
\* None, 2*None is a TypeError and no object is made).  The constructor
\* does not call the one of PhaseFitFID: the attributes below are all the
\* object has, and smoothing is True whatever the caller passes.
PhaseFitEcho(frac, probe, smoothing, n_smooth) ==
    [alive |-> TRUE,
     class |-> "PhaseFitEcho",
     t0 |-> F(2 * probe.readout_length.v - probe.time_pretrigger.v),
     pretrigger |-> probe.time_pretrigger,
     readout_length |-> probe.readout_length,
     frac |-> frac,
     smoothing |-> TRUE,
     n_smooth |-> n_smooth]

\* np.argmin(np.abs(self.time - self.t0)): the first index of the least
\* distance
closest_to_t0(self) ==
    LET dist(i) == IF self.time[i] >= self.t0.v THEN self.time[i] - self.t0.v
                   ELSE self.t0.v - self.time[i]
    IN  MinOf({i \in 1..Len(self.time) : \A j \in 1..Len(self.time) : dist(i) <= dist(j)})

\* the samples with env < frac * env[idx]
below_echo_threshold(self, idx) ==
    {i \in 1..Len(self.time) : self.env[i] * self.frac.den < self.env[idx] * self.frac.num}

\* PhaseFitEcho.get_fit_range: the nearest samples below the threshold
\* before and after t0; np.max and np.min raise ValueError when there is
\* none
PhaseFitEcho_get_fit_range(self) ==
    CHOOSE r \in
        {IF {i \in below : self.time[i] < self.t0.v} = {} THEN Raise("ValueError")
         ELSE IF {i \in below : self.time[i] > self.t0.v} = {} THEN Raise("ValueError")
         ELSE Return(<<MaxOf({self.time[i] : i \in {j \in below : self.time[j] < self.t0.v}}),
                       MinOf({self.time[i] : i \in {j \in below : self.time[j] > self.t0.v}})>>) :
            below \in {below_echo_threshold(self, closest_to_t0(self))}} : TRUE

\* self.get_fit_range(): the method of the object's class
get_fit_range(self) ==
    IF self.class = "PhaseFitEcho" THEN PhaseFitEcho_get_fit_range(self)
    ELSE PhaseFitFID_get_fit_range(self)

\* np.std of the array q, in tenths; the std of an empty array is nan
std(q) ==
    CHOOSE r \in {IF n = 0 THEN NaN ELSE F(ISqrt((100 * (n * S2 - S1 * S1)) \div (n * n))) :
                     n \in {Len(q)}, S1 \in {SumSeq(q)},
                     S2 \in {SumSeq([i \in 1..Len(q) |-> q[i] * q[i]])}} : TRUE

\* PhaseFitFID.get_noise: np.std of the flux before the trigger, in tenths of
\* a flux step
get_noise(self) ==
    CHOOSE r \in {std(pre) :
                     pre \in {Masked(self.flux,
                                     {i \in 1..Len(self.time) : self.time[i] < self.pretrigger.v},
                                     1)}} : TRUE

\* the least-squares line through n points, from the sums over x, x*x, y and
\* x*y; d = n*Sxx - Sx*Sx is 0 when all x are equal
line(n, Sx, Sxx, Sy, Sxy, d, y_finite, strict) ==
    IF d = 0
    THEN (IF strict THEN Raise("ValueError")
          ELSE Return([slope |-> NaN, intercept |-> NaN]))
    ELSE IF ~y_finite THEN Return([slope |-> NaN, intercept |-> NaN])
    ELSE Return([slope |-> F((n * Sxy - Sx * Sy) \div d),
                 intercept |-> F((Sy * Sxx - Sx * Sxy) \div d)])

\* scipy.stats.linregress(x, y): slope and intercept of the least-squares
\* line.  Empty input raises ValueError.  When all x are equal (one point,
\* for instance) the slope is 0/0: a library version either returns nan or
\* raises ValueError (strict).  A nan in y makes both results nan.
linregress(x, y, strict) ==
    IF Len(x) = 0 THEN Raise("ValueError")
    ELSE CHOOSE r \in
            {line(Len(x), Sx, Sxx, Sy, Sxy, Len(x) * Sxx - Sx * Sx,
                  \A i \in 1..Len(y) : IsFinite(y[i]), strict) :
                Sx \in {SumSeq(x)},
                Sxx \in {SumSeq([i \in 1..Len(x) |-> x[i] * x[i]])},
                Sy \in {SumSeq([i \in 1..Len(x) |-> y[i].v])},
                Sxy \in {SumSeq([i \in 1..Len(x) |-> x[i] * y[i].v])}} : TRUE

\* linregress(self.time[mask] - self.t0, phase[mask]) as lines 111-112 call it
regress_on(self, phase, mask, strict) ==
    CHOOSE r \in {linregress(x, y, strict) :
                     x \in {Masked([i \in 1..Len(self.time) |-> self.time[i] - self.t0.v],
                                   mask, 1)},
                     y \in {Masked(phase, mask, 1)}} : TRUE

\* scipy.ndimage.uniform_filter1d(input, size) with the default mode
\* (reflect): the running mean over size samples centred on each sample.
\* The library keeps a running sum, so a nan stays in it from the first
\* window that holds it.
uniform_filter1d(input, size) ==
    LET n == Len(input)
        h == size \div 2
        ext(j) == LET m == (j - 1) % (2 * n)
                  IN  input[IF m < n THEN m + 1 ELSE 2 * n - m]
    IN  [i \in 1..n |->
            IF \E j \in (1 - h)..(i + h) : ~IsFinite(ext(j)) THEN NaN
            ELSE F(SumSeq([j \in 1..size |-> ext(i - h + j - 1).v]) \div size)]

\* N of apply_smoothing: int(window_size / dt), made odd
filter_size(q) == IF q.v % 2 = 0 THEN q.v + 1 ELSE q.v

\* PhaseFitFID.apply_smoothing: int() of an infinite float raises
\* OverflowError, of nan ValueError; the filter rejects a size <= 0 with
\* RuntimeError; np.diff(time)[0] needs two samples
PhaseFitFID_apply_smoothing(self) ==
    IF Len(self.time) < 2 THEN Raise("IndexError")
    ELSE CHOOSE r \in
            {IF q.k = "inf" THEN Raise("OverflowError")
             ELSE IF q.k = "nan" THEN Raise("ValueError")
             ELSE IF filter_size(q) <= 0 THEN Raise("RuntimeError")
             ELSE Return(uniform_filter1d(phase_raw, filter_size(q))) :
                q \in {FDiv(self.window_size, F(self.time[2] - self.time[1]))},
                phase_raw \in {self.phase_raw}} : TRUE

\* np.random.normal(scale = 0.1, size = n) on the state rng: the n values
\* drawn, in tenths
normal(rng, n) == [j \in 1..n |-> Stream(rng.seed, rng.pos + j - 1) - 1]

\* the samples chi2_fit and fit select: min(t_range) < time < max(t_range)
in_range(self) ==
    {i \in 1..Len(self.time) :
        /\ self.time[i] > MinOf({self.t_range[1], self.t_range[2]})
        /\ self.time[i] < MaxOf({self.t_range[1], self.t_range[2]})}

\* the parameters, in tenths, of the least-squares line lsq in the variable
\* (time - t0) / width, padded with zeros to the length of x0
optimum(lsq, width, x0) ==
    [k \in 1..Len(x0) |->
        IF k = 1 THEN FMul(IF Raised(lsq) THEN NaN ELSE lsq.val.intercept, F(10))
        ELSE IF k = 2
        THEN FMul(FMul(IF Raised(lsq) THEN NaN ELSE lsq.val.slope, F(width)), F(10))
        ELSE F(0)]

\* scipy.optimize.minimize(chi2, x0, method = "L-BFGS-B"): the result object
\* (res.success, res.x), parameters in tenths.  Whether the search converges
\* is the library's; when it does, x is the least-squares optimum of
\* the weighted phase residual, of which the model keeps the constant and
\* the linear term; when it does not, x is where the search stood, which the
\* model takes to be the start x0.
minimize(self, x0, success) ==
    [success |-> success,
     x |-> IF ~success THEN x0
           ELSE CHOOSE r \in {optimum(lsq, self.width, x0) :
                    lsq \in {regress_on(self, self.phase, in_range(self), FALSE)}} : TRUE]

\* lines 97-99: the start of the search, from the numbers z drawn
start(self, z) ==
    [k \in 1..self.nParams |->
        IF k = 1 THEN FMul(self.offset_estimate, F(10 + z[1]))
        ELSE IF k = 2 THEN FMul(FMul(self.f_estimate, F(self.width)), F(10 + z[2]))
        ELSE F(z[k])]

\* lines 97-101 on the object s1 with width assigned; reading
\* self.nParams on an object that has no such attribute raises
\* AttributeError, before anything is drawn
chi2_fit_from(s1, rng, success) ==
    IF ~HasAttr(s1, "nParams")
    THEN [self |-> s1, err |-> "AttributeError", x0 |-> <<>>, rng |-> rng]
    ELSE CHOOSE r \in {[self |-> s1, err |-> "none", x0 |-> x0,
                        res |-> minimize(s1, x0, success),
                        rng |-> advance(rng, s1.nParams)] :
                          x0 \in {start(s1, normal(rng, s1.nParams))}} : TRUE

\* PhaseFitFID.chi2_fit on the process-wide random state rng: the object
\* (width assigned), the exception raised (err) or the start x0, the result
\* res and the advanced state
chi2_fit(self, rng, success) ==
    CHOOSE r \in {chi2_fit_from(s1, rng, success) :
                     s1 \in {SetAttrs(self, [width |-> self.t_range[2] - self.t_range[1]])}} : TRUE

\* self.phase -= self.phase_template[probe_id]: the new phase array, or the
\* IndexError of a row that does not exist, or the ValueError of a row whose
\* length is not that of the phase
subtract_template(self, probe_id) ==
    IF probe_id + 1 > Len(self.phase_template) THEN Raise("IndexError")
    ELSE LET row == self.phase_template[probe_id + 1]
         IN  IF Len(row) # Len(self.phase) THEN Raise("ValueError")
             ELSE Return([i \in 1..Len(self.phase) |-> FAdd(self.phase[i], F(-row[i]))])

\* how a fit call ends: the object as the call leaves it, what the call
\* returned or raised, the stages it ran, the start handed to the
\* optimizer (none: << >>) and the process-wide random state
Done(self, out, stages, x0, rng) ==
    [self |-> self, out |-> out, stages |-> stages, x0 |-> x0, rng |-> rng]

\* PhaseFitFID.fit in stages: fit_from_N is the rest of the call from line
\* N of phase_fit.py on, given the object as the lines before N left it and
\* the stages that ran.

\* lines 123-127, after chi2_fit returned c
fit_from_123(c, stages) ==
    CHOOSE r \in
        {Done(SetAttrs(c.self, [res |-> c.res,
                                n_point_in_fit |-> Cardinality(in_range(c.self)),
                                frequency |-> frequency,
                                phi0 |-> c.res.x[1]]),
              Return(frequency), stages \o <<"chi2_fit", "minimize">>, c.x0, c.rng) :
            frequency \in {FDiv(c.res.x[2], F(c.self.width))}} : TRUE

\* line 122
fit_from_122(s, rng, lib, stages) ==
    CHOOSE r \in
        {IF Raised(c) THEN Done(c.self, Raise(c.err), stages \o <<"chi2_fit">>, <<>>, c.rng)
         ELSE fit_from_123(c, stages) :
            c \in {chi2_fit(s, rng, lib.success)}} : TRUE

\* lines 119-120; without smoothing phase is a view of phase_raw (line 117:
\* phase_raw[:]), so the subtraction in place changes both
fit_from_119(s, probe_id, rng, lib, stages) ==
    IF ~HasAttr(s, "phase_template") THEN fit_from_122(s, rng, lib, stages)
    ELSE CHOOSE r \in
            {IF Raised(tp) THEN Done(s, tp, stages \o <<"phase_template">>, <<>>, rng)
             ELSE fit_from_122(IF s.smoothing THEN SetAttrs(s, [phase |-> tp.val])
                               ELSE SetAttrs(s, [phase |-> tp.val, phase_raw |-> tp.val]),
                               rng, lib, stages \o <<"phase_template">>) :
                tp \in {subtract_template(s, probe_id)}} : TRUE

\* line 115, window_size assigned
fit_from_115(s, probe_id, rng, lib, stages) ==
    CHOOSE r \in
        {IF Raised(sm) THEN Done(s, sm, stages \o <<"apply_smoothing">>, <<>>, rng)
         ELSE fit_from_119(SetAttrs(s, [phase |-> sm.val]), probe_id, rng, lib,
                           stages \o <<"apply_smoothing">>) :
            sm \in {PhaseFitFID_apply_smoothing(s)}} : TRUE

\* lines 113-117 with the smoothing applied whatever the switch says
fit_from_113_always_smoothing(s, probe_id, rng, lib, stages) ==
    CHOOSE r \in
        {fit_from_115(sw, probe_id, rng, lib, stages) :
            sw \in {SetAttrs(s, [window_size |->
                                    FDiv(F(s.n_smooth * 16), s.f_estimate)])}} : TRUE

\* lines 113-117
fit_from_113(s, probe_id, rng, lib, stages) ==
    IF s.smoothing
    THEN CHOOSE r \in
            {fit_from_115(sw, probe_id, rng, lib, stages) :
                sw \in {SetAttrs(s, [window_size |->
                                        FDiv(F(s.n_smooth * 16), s.f_estimate)])}} : TRUE
    ELSE fit_from_119(SetAttrs(s, [phase |-> s.phase_raw]), probe_id, rng, lib, stages)

\* lines 111-112, t_range assigned
fit_from_111(s, probe_id, rng, lib, stages) ==
    CHOOSE r \in
        {IF Raised(lr) THEN Done(s, lr, stages \o <<"linregress">>, <<>>, rng)
         ELSE fit_from_113(SetAttrs(s, [f_estimate |-> lr.val.slope,
                                        offset_estimate |-> lr.val.intercept]),
                           probe_id, rng, lib, stages \o <<"linregress">>) :
            lr \in {regress_on(s, s.phase_raw,
                               {i \in 1..Len(s.time) :
                                   s.t_range[1] < s.time[i] /\ s.time[i] < s.t_range[2]},
                               lib.strict)}} : TRUE

\* line 110, noise assigned
fit_from_110(s, probe_id, rng, lib, stages) ==
    CHOOSE r \in
        {IF Raised(range) THEN Done(s, range, stages \o <<"get_fit_range">>, <<>>, rng)
         ELSE fit_from_111(SetAttrs(s, [t_range |-> range.val]), probe_id, rng, lib,
                           stages \o <<"get_fit_range">>) :
            range \in {get_fit_range(s)}} : TRUE

\* lines 107-109, given the HilbertTransform object
fit_from_107(s, hilbert_obj, probe_id, rng, lib) ==
    CHOOSE r \in
        {fit_from_110(SetAttrs(s, [env |-> env, phase_raw |-> phase_raw, noise |-> noise]),
                      probe_id, rng, lib,
                      <<"HilbertTransform", "EnvelopeFunction", "PhaseFunction", "get_noise">>) :
            env \in {EnvelopeFunction(hilbert_obj)},
            phase_raw \in {PhaseFunction(hilbert_obj)},
            noise \in {get_noise(s)}} : TRUE

\* line 106, time and flux assigned
fit_from_106(s, probe_id, rng, lib) ==
    CHOOSE r \in
        {IF Raised(ht) THEN Done(s, ht, <<"HilbertTransform">>, <<>>, rng)
         ELSE fit_from_107(s, ht.val, probe_id, rng, lib) :
            ht \in {HilbertTransform(s.time, s.flux).out}} : TRUE

\* PhaseFitFID.fit(time, flux, probe_id) on the process-wide random state
\* rng; lib holds the choices the libraries make (lib.success, lib.strict)
PhaseFitFID_fit(self, time, flux, probe_id, rng, lib) ==
    CHOOSE r \in {fit_from_106(s, probe_id, rng, lib) :
                     s \in {SetAttrs(self, [time |-> time, flux |-> flux])}} : TRUE

(***************************************************************************)
(* Fitting: one PhaseFitFID object, made with any of the configurations    *)
(* below, is handed waveforms again and again.                             *)
(***************************************************************************)
\* the waveforms: constant bursts that start at the trigger and end two
\* samples or one sample before the end of the record or at its end, an
\* alternating carrier over the whole record, a burst that ends at the
\* trigger, silence, and a flux array one sample short of the time array
Waveforms ==
    {Burst(MaxLen, 2, b, 1) : b \in {MaxLen - 2, MaxLen - 1, MaxLen}}
        \cup {Burst(MaxLen, 0, MaxLen, 2), Burst(MaxLen, 0, 2, 1),
              Burst(MaxLen, 0, 0, 1), Burst(MaxLen - 1, 0, 0, 1)}

ProbeIds == {0, 1}

\* the phase template file: a row for probe 0 only, as long as a waveform
PhaseTemplateFile ==
    [k |-> "file", rows |-> <<[i \in 1..MaxLen |-> 3 * (i % 2)]>>]

\* the fit range template file: an entry (Probe ID, Fid Begin, Fid End) for
\* probe 0 only
FitRangeTemplateFile == [k |-> "file", entries |-> {<<0, 3, MaxLen - 2>>}]

\* the probe a fitter is made for: trigger at t = 2
DaqProbe(readout_length) == [time_pretrigger |-> F(2), readout_length |-> readout_length]

\* what the libraries may do in a call: the search converges or not, and
\* linregress is of a version that raises on a degenerate x or of one that
\* returns nan
LibChoices == [success : BOOLEAN, strict : BOOLEAN]

InitFit ==
    /\ np_random = RandomState(0)
    /\ probes = [i \in Slots |-> NoProbe]
    /\ coil = Coil(1, 4, 4, 1)
    /\ demod = NoObject
    /\ \E smoothing \in BOOLEAN, phase_template_file \in {None, PhaseTemplateFile},
          fit_range_template_file \in {None, FitRangeTemplateFile} :
          fid = PhaseFitFID(DaqProbe(None), 0, [num |-> 37, den |-> 100],
                            smoothing, 1, phase_template_file,
                            fit_range_template_file, "t3_odd")
    /\ last_fit = NoObject
    /\ result = [op |-> "init", out |-> Raise("none")]

\* frequency = fid.fit(time, flux, probe_id)
Fit(flux, probe_id, lib) ==
    /\ fid.alive
    /\ HasAttr(fid, "nParams") => np_random.pos < MaxDraws * fid.nParams
    /\ \E r \in {PhaseFitFID_fit(fid, Grid(MaxLen), flux, probe_id, np_random, lib)} :
           /\ fid' = r.self
           /\ np_random' = r.rng
           /\ last_fit' = [alive |-> TRUE, time |-> Grid(MaxLen), flux |-> flux,
                           probe_id |-> probe_id, stages |-> r.stages,
                           x0 |-> r.x0, out |-> r.out]
           /\ result' = [op |-> "fit", out |-> r.out]
    /\ UNCHANGED <<probes, coil, demod>>

NextFit ==
    \E flux \in Waveforms, probe_id \in ProbeIds, lib \in LibChoices :
        Fit(flux, probe_id, lib)

SpecFit == InitFit /\ [][NextFit]_vars

(***************************************************************************)
(* Claims about the fit.                                                   *)
(***************************************************************************)
Ran(stage) == \E n \in 1..Len(last_fit.stages) : last_fit.stages[n] = stage

\* C2: when the last fit call got as far as the envelope and no sample of
\* its search window has an envelope above the threshold, the call raised
\* the error of the empty selection (ValueError) in get_fit_range, went no
\* further and returned no frequency.
C2_NoSignalRaises ==
    (last_fit.alive /\ Ran("EnvelopeFunction") /\ above_threshold(fid) = {}) =>
        /\ last_fit.out.err = "ValueError"
        /\ last_fit.stages[Len(last_fit.stages)] = "get_fit_range"
        /\ last_fit.x0 = <<>>

\* a fitter that holds a frequency from an earlier call and a fit range
\* template for the probe was handed a flux that is not zero everywhere but
\* is silent in the search window, and raised
C2_Witness ==
    /\ last_fit.alive
    /\ Ran("EnvelopeFunction")
    /\ above_threshold(fid) = {}
    /\ mask_edge(fid) # {}
    /\ \E i \in 1..Len(last_fit.flux) : last_fit.flux[i] # 0
    /\ HasAttr(fid, "frequency")
    /\ HasAttr(fid, "fit_range_template")
    /\ last_fit.probe_id \in DOMAIN fid.fit_range_template
    /\ Raised(last_fit.out)

\* C4 (as claimed): a fit call on a fitter that holds a fit range template
\* with an entry for the probe does not run get_fit_range, and when it
\* returns, the fit range is the template's pair.
C4_TemplateBypassesRangeSelection ==
    (/\ last_fit.alive
     /\ HasAttr(fid, "fit_range_template")
     /\ last_fit.probe_id \in DOMAIN fid.fit_range_template
     /\ Ran("get_noise")) =>
        /\ ~Ran("get_fit_range")
        /\ ~Raised(last_fit.out) =>
              fid.t_range = fid.fit_range_template[last_fit.probe_id]

\* C5 (as claimed): a fit call whose search did not converge raises.
C5_NoConvergenceRaises ==
    (last_fit.alive /\ Ran("minimize") /\ ~fid.res.success) =>
        Raised(last_fit.out)

\* C8 (as claimed): a fit call that follows a fit call with the same time,
\* flux and probe id on the same fitter hands the optimizer the same start.
C8_SameInputsSameStart ==
    [][(/\ last_fit.alive
        /\ last_fit'.alive
        /\ last_fit'.time = last_fit.time
        /\ last_fit'.flux = last_fit.flux
        /\ last_fit'.probe_id = last_fit.probe_id
        /\ last_fit.x0 # <<>>
        /\ last_fit'.x0 # <<>>) =>
            last_fit'.x0 = last_fit.x0]_vars

\* the raw phase of the waveform the fitter holds, as the demodulator gives
\* it, and that phase with the template row of the probe subtracted
RawPhaseOfFit == PhaseFunction(HilbertTransform(fid.time, fid.flux).out.val)

TemplateCorrectedRawPhase ==
    [i \in 1..Len(fid.time) |->
        FAdd(RawPhaseOfFit[i], F(-fid.phase_template[last_fit.probe_id + 1][i]))]

\* C11 (as claimed): in a fit call on a fitter with a phase template that
\* reached the fit of the phase model, the phase that is fitted is the raw
\* phase with the template row of the probe subtracted, smoothed after the
\* subtraction when smoothing is on.
C11_TemplateSubtractedFromRawPhase ==
    (last_fit.alive /\ Ran("phase_template") /\ Ran("chi2_fit")) =>
        \/ fid.phase = TemplateCorrectedRawPhase
        \/ /\ fid.smoothing
           /\ fid.phase = uniform_filter1d(TemplateCorrectedRawPhase,
                              filter_size(FDiv(fid.window_size,
                                               F(fid.time[2] - fid.time[1]))))

(***************************************************************************)
(* Range selection: fitters without templates and without smoothing, made  *)
(* with and without an edge margin and a readout cutoff, are handed bursts *)
(* of every position.                                                      *)
(***************************************************************************)
RangeWaveforms ==
    {Burst(MaxLen, a, b, p) : a \in {0, 3}, b \in 2..MaxLen, p \in {1, 2}}

InitRange ==
    /\ np_random = RandomState(0)
    /\ probes = [i \in Slots |-> NoProbe]
    /\ coil = Coil(1, 4, 4, 1)
    /\ demod = NoObject
    /\ \E edge_ignore \in {0, 1}, readout_length \in {None, F(MaxLen - 2)} :
          fid = PhaseFitFID([time_pretrigger |-> F(1), readout_length |-> readout_length],
                            edge_ignore, [num |-> 37, den |-> 100],
                            FALSE, 1, None, None, "t3_odd")
    /\ last_fit = NoObject
    /\ result = [op |-> "init", out |-> Raise("none")]

\* the search of each call is taken to converge: range selection is over
\* before it starts
NextRange ==
    \E flux \in RangeWaveforms, lib \in {l \in LibChoices : l.success} : Fit(flux, 0, lib)

SpecRange == InitRange /\ [][NextRange]_vars

\* the edge-trimmed window of the fitter: the samples between the pretrigger
\* time and the readout cutoff (where given, else the ends of the record),
\* each bound moved inwards by edge_ignore
TrimmedWindow ==
    LET first == MinOf({fid.time[i] : i \in 1..Len(fid.time)})
        last == MaxOf({fid.time[i] : i \in 1..Len(fid.time)})
        lo == IF IsNone(fid.pretrigger) \/ fid.pretrigger.v < first
              THEN first ELSE fid.pretrigger.v
        hi == IF IsNone(fid.readout_length) \/ fid.readout_length.v > last
              THEN last ELSE fid.readout_length.v
    IN  {i \in 1..Len(fid.time) :
            lo + fid.edge_ignore < fid.time[i] /\ fid.time[i] < hi - fid.edge_ignore}

\* the envelope of sample i exceeds frac * max(envelope in the window)
AboveThreshold(i) ==
    \E m \in TrimmedWindow :
        /\ \A j \in TrimmedWindow : fid.env[j] <= fid.env[m]
        /\ fid.env[i] * fid.frac.den > fid.env[m] * fid.frac.num

\* the range of the last fit call starts at the earliest sample of the
\* window that is above the threshold
StartIsEarliestAbove ==
    /\ \E i \in TrimmedWindow : AboveThreshold(i) /\ fid.time[i] = fid.t_range[1]
    /\ \A i \in TrimmedWindow : AboveThreshold(i) => fid.time[i] >= fid.t_range[1]

\* start < end, and the samples strictly between them are above the
\* threshold
AboveBetween ==
    /\ fid.t_range[1] < fid.t_range[2]
    /\ \A i \in 1..Len(fid.time) :
          (fid.t_range[1] < fid.time[i] /\ fid.time[i] < fid.t_range[2]) =>
              AboveThreshold(i)

\* C12 (as claimed): the range a fit call selected is [start, end] with
\* start the earliest sample of the trimmed window above the threshold and
\* end the first sample after start whose envelope is not above the
\* threshold; start < end and all samples between them are above it.
C12_EndIsFirstNotAbove ==
    (last_fit.alive /\ Ran("linregress")) =>
        /\ StartIsEarliestAbove
        /\ \E i \in 1..Len(fid.time) :
              /\ fid.time[i] = fid.t_range[2]
              /\ fid.time[i] > fid.t_range[1]
              /\ ~AboveThreshold(i)
        /\ \A i \in 1..Len(fid.time) :
              (fid.time[i] > fid.t_range[1] /\ ~AboveThreshold(i)) =>
                  fid.time[i] >= fid.t_range[2]
        /\ AboveBetween

\* C12 (amended): as above, but end is the first sample after start that is
\* outside the trimmed window or whose envelope is not above the threshold.
C12_EndIsFirstNotSelected ==
    (last_fit.alive /\ Ran("linregress")) =>
        /\ StartIsEarliestAbove
        /\ \E i \in 1..Len(fid.time) :
              /\ fid.time[i] = fid.t_range[2]
              /\ fid.time[i] > fid.t_range[1]
              /\ (i \notin TrimmedWindow \/ ~AboveThreshold(i))
        /\ \A i \in 1..Len(fid.time) :
              (/\ fid.time[i] > fid.t_range[1]
               /\ (i \notin TrimmedWindow \/ ~AboveThreshold(i))) =>
                  fid.time[i] >= fid.t_range[2]
        /\ AboveBetween

\* a fitter with an edge margin and a readout cutoff selected a range that
\* ends at the first sample past its window, where the envelope is still
\* above the threshold, although the record goes on after that sample
C12_Witness ==
    /\ last_fit.alive
    /\ Ran("linregress")
    /\ fid.edge_ignore > 0
    /\ ~IsNone(fid.readout_length)
    /\ \E i \in 1..Len(fid.time) :
          /\ fid.time[i] = fid.t_range[2]
          /\ i \notin TrimmedWindow
          /\ AboveThreshold(i)
    /\ \E i \in 1..Len(fid.time) : fid.time[i] > fid.t_range[2]

(***************************************************************************)
(* Claims about the demodulator's phase.                                   *)
(***************************************************************************)
\* the sign of the last sample of x[1..i] that is not zero (0: there is none)
LastSign(x, i) ==
    IF \A k \in 1..i : x[k] = 0 THEN 0
    ELSE Sgn(x[MaxOf({k \in 1..i : x[k] # 0})])

\* the number of changes of sign of the waveform x between its first sample
\* and sample i: the samples k <= i with a sign opposite to that of the last
\* sample before k that is not zero
RECURSIVE SignChanges(_, _)
SignChanges(x, i) ==
    IF i <= 1 THEN 0
    ELSE SignChanges(x, i - 1)
         + (IF x[i] # 0 /\ LastSign(x, i - 1) = -Sgn(x[i]) THEN 1 ELSE 0)

\* C13 (as claimed): the phase PhaseFunction returns for a waveform whose
\* first sample is not zero is, at every sample that is not zero, the
\* arctangent phase plus pi (8) times the number of sign changes of the
\* waveform up to that sample, a crossing through a zero sample counting as
\* one change.
C13_WindingCountsSignChanges ==
    (result.op = "PhaseFunction" /\ demod.N >= 1 /\ demod.flux[1] # 0) =>
        \A i \in 1..demod.N :
            demod.flux[i] # 0 =>
                result.out.val[i] = FAdd(arctan(imag(demod)[i], real(demod)[i]),
                                         F(8 * SignChanges(demod.flux, i)))

(***************************************************************************)
(* Claims about the stages of a fit call.                                  *)
(***************************************************************************)
IsFitStage(stage) == stage \in {"get_fit_range", "linregress", "apply_smoothing", "minimize"}

RanIn(call, stage) == \E n \in 1..Len(call.stages) : call.stages[n] = stage

\* the attribute name of the fitter is the same before and after the step
Kept(name) ==
    /\ HasAttr(fid', name) = HasAttr(fid, name)
    /\ HasAttr(fid, name) => fid'[name] = fid[name]

\* C14: a fit call that returns a frequency ran range selection, the
\* regression seed, the smoothing (if and only if it is enabled) and the
\* nonlinear fit, in this order and each once; a call assigns frequency and
\* phi0 only when its nonlinear fit has run, from the result of that fit,
\* and leaves them alone otherwise.
C14_StagesInOrder ==
    [][last_fit'.alive =>
          /\ ~Raised(last_fit'.out) =>
                /\ SelectSeq(last_fit'.stages, IsFitStage)
                      = <<"get_fit_range", "linregress">>
                           \o (IF fid'.smoothing THEN <<"apply_smoothing">> ELSE <<>>)
                           \o <<"minimize">>
                /\ last_fit'.out.val = fid'.frequency
          /\ IF RanIn(last_fit', "minimize")
             THEN /\ fid'.frequency = FDiv(fid'.res.x[2], F(fid'.width))
                  /\ fid'.phi0 = fid'.res.x[1]
             ELSE Kept("frequency") /\ Kept("phi0") /\ Kept("res")]_vars

\* a fitter with smoothing returned a finite frequency that is not zero
\* from a search that converged
C14_Witness ==
    /\ last_fit.alive
    /\ ~Raised(last_fit.out)
    /\ fid.smoothing
    /\ Ran("apply_smoothing")
    /\ fid.res.success
    /\ IsFinite(fid.frequency)
    /\ fid.frequency.v # 0

(***************************************************************************)
(* The echo fitter: PhaseFitEcho objects, made with either value of the    *)
(* smoothing argument, are handed bursts around the echo centre t0.        *)
(***************************************************************************)
EchoWaveforms ==
    {Burst(MaxLen, a, b, p) : a \in 0..2, b \in (MaxLen - 3)..MaxLen, p \in {1, 2}}

InitEcho ==
    /\ np_random = RandomState(0)
    /\ probes = [i \in Slots |-> NoProbe]
    /\ coil = Coil(1, 4, 4, 1)
    /\ demod = NoObject
    /\ \E smoothing \in BOOLEAN, readout_length \in {F(2), F(3)}, num \in {37, 90} :
          fid = PhaseFitEcho([num |-> num, den |-> 100],
                             [time_pretrigger |-> F(1), readout_length |-> readout_length],
                             smoothing, 1)
    /\ last_fit = NoObject
    /\ result = [op |-> "init", out |-> Raise("none")]

NextEcho == \E flux \in EchoWaveforms, lib \in LibChoices : Fit(flux, 0, lib)

SpecEcho == InitEcho /\ [][NextEcho]_vars

\* C15 (as claimed): a fit call on an echo fitter that selected its range
\* between samples below the threshold on both sides of the echo centre and
\* came through the regression and the smoothing runs the nonlinear fit and
\* returns a frequency.
C15_EchoFitReturnsFrequency ==
    (last_fit.alive /\ fid.class = "PhaseFitEcho" /\ Ran("chi2_fit")) =>
        /\ Ran("minimize")
        /\ ~Raised(last_fit.out)
        /\ HasAttr(fid, "frequency")

(***************************************************************************)
(* PhaseFitRan.get_fit_range (phase_fit.py, lines 265-291).                *)
(*                                                                         *)
(* Indices are Python's: the array q of length n has the elements q[0] to  *)
(* q[n-1], an index from -n to -1 counts from the end, any other index     *)
(* raises IndexError.  A scan is a record with the index k, the indices    *)
(* read so far in env and in filtered_wf, and err: "none", the exception   *)
(* raised, or "diverged" when the loop is still running after more         *)
(* iterations than the array has elements twice over.                      *)
(* Times are in units of 10 us here, so that edge_ignore = 60 us is 6.     *)
(***************************************************************************)
\* PhaseFitRan.__init__ without template files
PhaseFitRan(t0, baseline_start, baseline_end, smooth_iterations, LengthReduction) ==
    [alive |-> TRUE,
     class |-> "PhaseFitRan",
     t0 |-> t0,
     baseline_start |-> baseline_start,
     baseline_end |-> baseline_end,
     smooth_iterations |-> smooth_iterations,
     LengthReduction |-> LengthReduction,
     edge_ignore |-> 6,
     start_amplitude |-> [num |-> 37, den |-> 100],
     use_phase_template |-> FALSE,
     use_fit_range_template |-> FALSE]

\* q[k] of Python
InBounds(q, k) == -Len(q) <= k /\ k < Len(q)
At(q, k) == IF k >= 0 THEN q[k + 1] ELSE q[Len(q) + k + 1]

\* the iterations a scan loop is followed for
ScanLimit(Length) == 2 * Length + 2

Scan(k, env_reads, wf_reads, err) ==
    [k |-> k, env_reads |-> env_reads, wf_reads |-> wf_reads, err |-> err]

\* np.argmax(q): the first index of the greatest element; ValueError when q
\* is empty
argmax(q) ==
    IF Len(q) = 0 THEN Raise("ValueError")
    ELSE Return(MinOf({i \in 1..Len(q) : \A j \in 1..Len(q) : q[j] <= q[i]}) - 1)

\* line 270: the index of the greatest envelope inside the margins, plus
\* nIgnore twice.  nIgnore is the float np.floor returns: a numpy that
\* takes a float as a slice bound truncates it, any other raises TypeError.
\* env[0:-0] is empty.
start_of_scan(env, nIgnore, float_index) ==
    IF float_index = "TypeError" THEN Scan(0, {}, {}, "TypeError")
    ELSE LET Length == Len(env)
             lo == IF nIgnore > Length THEN Length ELSE nIgnore
             hi == IF nIgnore = 0 THEN 0
                   ELSE IF Length - nIgnore < 0 THEN 0 ELSE Length - nIgnore
             slice == IF hi <= lo THEN <<>> ELSE [i \in 1..(hi - lo) |-> env[lo + i]]
             m == argmax(slice)
         IN  IF Raised(m) THEN Scan(0, {}, {}, m.err)
             ELSE Scan(m.val + nIgnore + nIgnore, lo..(hi - 1), {}, "none")

\* lines 273-275: forward to the next falling zero crossing
RECURSIVE next_falling_crossing(_, _, _, _)
next_falling_crossing(filtered_wf, nIgnore, sc, fuel) ==
    LET Length == Len(filtered_wf)
        k == sc.k
        goes_on == IF k >= Length - nIgnore - 1 THEN "break" ELSE "next"
        r1 == sc.wf_reads \cup {k}
        r2 == r1 \cup {k + 1}
        step == IF ~InBounds(filtered_wf, k) THEN <<"IndexError", r1>>
                ELSE IF ~(At(filtered_wf, k) >= 0) THEN <<goes_on, r1>>
                ELSE IF ~InBounds(filtered_wf, k + 1) THEN <<"IndexError", r2>>
                ELSE IF At(filtered_wf, k + 1) < 0 THEN <<"break", r2>>
                ELSE <<goes_on, r2>>
    IN  IF fuel = 0 THEN [sc EXCEPT !.err = "diverged"]
        ELSE IF step[1] = "IndexError" THEN Scan(k, sc.env_reads, step[2], "IndexError")
        ELSE IF step[1] = "break" THEN Scan(k, sc.env_reads, step[2], "none")
        ELSE next_falling_crossing(filtered_wf, nIgnore,
                                   Scan(k + 1, sc.env_reads, step[2], "none"), fuel - 1)

\* lines 280-282: forward to where the envelope is below start_amplitude
\* times rel
RECURSIVE amplitude_dropped(_, _, _, _, _, _)
amplitude_dropped(self, env, nIgnore, rel, sc, fuel) ==
    LET Length == Len(env)
        k == sc.k
        r1 == sc.env_reads \cup {k}
    IN  IF fuel = 0 THEN [sc EXCEPT !.err = "diverged"]
        ELSE IF ~InBounds(env, k) THEN Scan(k, r1, sc.wf_reads, "IndexError")
        ELSE IF \/ At(env, k) * self.start_amplitude.den < rel * self.start_amplitude.num
                \/ k >= Length - nIgnore
        THEN Scan(k, r1, sc.wf_reads, "none")
        ELSE amplitude_dropped(self, env, nIgnore, rel,
                               Scan(k + 1, r1, sc.wf_reads, "none"), fuel - 1)

\* lines 285-288: back to the previous falling zero crossing
RECURSIVE previous_falling_crossing(_, _, _, _)
previous_falling_crossing(filtered_wf, nIgnore, sc, fuel) ==
    LET k == sc.k
        r1 == sc.wf_reads \cup {k}
        r2 == r1 \cup {k - 1}
        step == IF k <= nIgnore + 1 THEN <<"break", sc.wf_reads>>
                ELSE IF ~InBounds(filtered_wf, k) THEN <<"IndexError", r1>>
                ELSE IF ~(At(filtered_wf, k) <= 0) THEN <<"next", r1>>
                ELSE IF ~InBounds(filtered_wf, k - 1) THEN <<"IndexError", r2>>
                ELSE IF At(filtered_wf, k - 1) > 0 THEN <<"break", r2>>
                ELSE <<"next", r2>>
    IN  IF fuel = 0 THEN [sc EXCEPT !.err = "diverged"]
        ELSE IF step[1] = "IndexError" THEN Scan(k, sc.env_reads, step[2], "IndexError")
        ELSE IF step[1] = "break" THEN Scan(k, sc.env_reads, step[2], "none")
        ELSE previous_falling_crossing(filtered_wf, nIgnore,
                                       Scan(k - 1, sc.env_reads, step[2], "none"), fuel - 1)

\* how a get_fit_range call ends: what it returned or raised, the indices
\* it read and the scan loops it left
Ranged(out, sc, loops) ==
    [out |-> out, env_reads |-> sc.env_reads, wf_reads |-> sc.wf_reads, loops |-> loops]

\* lines 279-291, after the first loop ended at sc1
range_from_279(self, env, filtered_wf, nIgnore, sc1) ==
    LET Length == Len(env)
        idx_start == IF sc1.k >= 0 THEN sc1.k - 2 ELSE sc1.k
        sc1r == [sc1 EXCEPT !.env_reads = @ \cup {sc1.k}]
    IN  IF ~InBounds(env, sc1.k) THEN Ranged(Raise("IndexError"), sc1r, 1)
        ELSE CHOOSE r \in
            {IF sc2.err # "none" THEN Ranged(Raise(sc2.err), sc2, 1)
             ELSE CHOOSE r3 \in
                    {IF sc3.err # "none" THEN Ranged(Raise(sc3.err), sc3, 2)
                     ELSE Ranged(Return(<<idx_start,
                                          IF sc3.k <= Length - 3 THEN sc3.k + 2 ELSE sc3.k>>),
                                 sc3, 3) :
                        sc3 \in {previous_falling_crossing(filtered_wf, nIgnore, sc2,
                                                           ScanLimit(Length))}} : TRUE :
                sc2 \in {amplitude_dropped(self, env, nIgnore, At(env, sc1.k), sc1r,
                                           ScanLimit(Length))}} : TRUE

\* PhaseFitRan.get_fit_range(env, filtered_wf, dt)
PhaseFitRan_get_fit_range(self, env, filtered_wf, dt, float_index) ==
    CHOOSE r \in
        {IF sc0.err # "none" THEN Ranged(Raise(sc0.err), sc0, 0)
         ELSE CHOOSE r1 \in
                {IF sc1.err # "none" THEN Ranged(Raise(sc1.err), sc1, 0)
                 ELSE range_from_279(self, env, filtered_wf, nIgnore, sc1) :
                    sc1 \in {next_falling_crossing(filtered_wf, nIgnore, sc0,
                                                   ScanLimit(Len(env)))}} : TRUE :
            nIgnore \in {self.edge_ignore \div dt},
            sc0 \in {start_of_scan(env, self.edge_ignore \div dt, float_index)}} : TRUE

(***************************************************************************)
(* Range selection of PhaseFitRan: a fitter is handed an envelope with one *)
(* peak and a filtered waveform of the same length, sampled every dt.      *)
(***************************************************************************)
\* an envelope of n samples with its greatest value at index p and the
\* value tail from index p + 2 on
Peak(n, p, tail) == [i \in 1..n |-> IF i - 1 = p THEN 9 ELSE IF i - 1 > p + 1 THEN tail ELSE 5]

\* filtered waveforms of n samples: of one sign, alternating, and of period 4
FilteredWaveforms(n) ==
    {[i \in 1..n |-> sgn] : sgn \in {-1, 1}}
        \cup {[i \in 1..n |-> IF (i + ph) % 2 = 0 THEN 1 ELSE -1] : ph \in 0..1}
        \cup {[i \in 1..n |-> CosQ(i + ph)] : ph \in 0..3}

\* sampling steps, in units of 10 us: nIgnore = floor(6 / dt) is 3, 2, 1, 0
SamplingSteps == {2, 3, 6, 7}

FloatIndexing == {"truncate", "TypeError"}

InitRan ==
    /\ np_random = RandomState(0)
    /\ probes = [i \in Slots |-> NoProbe]
    /\ coil = Coil(1, 4, 4, 1)
    /\ demod = NoObject
    /\ fid = PhaseFitRan(F(-42), 0, 400, 2, [num |-> 4, den |-> 10])
    /\ last_fit = NoObject
    /\ \E n \in 4..MaxRanLen, tail \in {1, 5}, dt \in SamplingSteps,
          float_index \in FloatIndexing :
          \E p \in 0..(n - 1), filtered_wf \in FilteredWaveforms(n) :
              result = [op |-> "arguments", env |-> Peak(n, p, tail),
                        filtered_wf |-> filtered_wf, dt |-> dt,
                        float_index |-> float_index, out |-> Raise("none")]

\* idx_start, idx_stop = fid.get_fit_range(env, filtered_wf, dt)
GetFitRange ==
    /\ result.op = "arguments"
    /\ \E r \in {PhaseFitRan_get_fit_range(fid, result.env, result.filtered_wf,
                                           result.dt, result.float_index)} :
           result' = [op |-> "PhaseFitRan.get_fit_range", env |-> result.env,
                      filtered_wf |-> result.filtered_wf, dt |-> result.dt,
                      float_index |-> result.float_index, out |-> r.out,
                      env_reads |-> r.env_reads, wf_reads |-> r.wf_reads,
                      loops |-> r.loops]
    /\ UNCHANGED <<probes, coil, np_random, fitVars>>

NextRan == GetFitRange

SpecRan == InitRan /\ [][NextRan]_vars

\* C16 (as claimed): a get_fit_range call of PhaseFitRan on arrays of the
\* same length Length > 2*nIgnore + 1, on a numpy that takes the float
\* nIgnore as an index, leaves its three scan loops, reads env and
\* filtered_wf at indices from 0 to Length - 1 only and returns
\* 0 <= idx_start <= idx_stop <= Length - 1.
C16_ScanStaysInBounds ==
    (/\ result.op = "PhaseFitRan.get_fit_range"
     /\ result.float_index = "truncate"
     /\ Len(result.env) > 2 * (fid.edge_ignore \div result.dt) + 1) =>
        /\ result.out.err # "diverged"
        /\ result.env_reads \cup result.wf_reads \subseteq 0..(Len(result.env) - 1)
        /\ ~Raised(result.out)
        /\ result.loops = 3
        /\ 0 <= result.out.val[1]
        /\ result.out.val[1] <= result.out.val[2]
        /\ result.out.val[2] <= Len(result.env) - 1

(***************************************************************************)
(* Claims about what a failing fit call leaves behind.                     *)
(***************************************************************************)
\* C17 (as claimed): a fit call that raises in range selection or later, on
\* a fitter that holds the result of an earlier call, leaves the stored
\* result fields and the stored inputs as they were, so that they all come
\* from the same call.
C17_FailingFitLeavesState ==
    [][(/\ last_fit'.alive
        /\ Raised(last_fit'.out)
        /\ RanIn(last_fit', "get_fit_range")
        /\ HasAttr(fid, "frequency")) =>
            /\ Kept("t_range") /\ Kept("res") /\ Kept("frequency")
            /\ Kept("phi0") /\ Kept("n_point_in_fit")
            /\ Kept("time") /\ Kept("flux") /\ Kept("env") /\ Kept("phase_raw")]_vars

=============================================================================
